---- MODULE Spec2Model ----
(***************************************************************************)
(* Glyph variant resolution of src/font/variants.rs: Variant::variant      *)
(* (replacement ladder, repeat-count search, instruction materialization,  *)
(* fit-to-size adjustment) and Variant::successor, over the read-only      *)
(* VERT_VARIANTS / HORZ_VARIANTS tables.                                   *)
(*                                                                         *)
(* Numbers.  u16/u32 table fields are naturals.  The u32 accumulator of    *)
(* advance_with_glyphs is kept as the representative of its value modulo   *)
(* 2^32 in [-2^31, 2^31): a negative representative x stands for the u32   *)
(* value 2^32 + x.  f64 values are held exactly in fixed point and every   *)
(* f64 operation rounds as IEEE 754 does; min_size ranges over integers.   *)
(***************************************************************************)
EXTENDS Integers, Sequences, FiniteSets, TLC

\* ------------------------------------------------------------- bounds
MaxSize == 11
MaxParts == 2
MaxReplacements == 3

\* The repeat ceiling of the search: `if count > 10 { panic!(..) }`.
MaxRepeats == 10

\* constants::MIN_CONNECTOR_OVERLAP, in the model's length unit.
MIN_CONNECTOR_OVERLAP == 1

\* ------------------------------------------------------------- domains
Direction == {"Vertical", "Horizontal"}

\* Glyph identities: the base glyph, the i-th rung of a ladder, the i-th part
\* of a recipe.
BaseUnicode == 40
ReplUnicode(i) == 100 + i
PartUnicode(i) == 199 + 3 * i

ReplAdvances == {1, 2, 3}
PartAdvances == {0, 2}
ConnectorLengths == {0, 2}
Sizes == 0..MaxSize

None == <<>>
Some(x) == <<x>>

Min(a, b) == IF a <= b THEN a ELSE b

\* ------------------------------------------------------------- types
ReplacementGlyph(unicode, advance) == [unicode |-> unicode, advance |-> advance]

GlyphPart(unicode, start, end, full, required) ==
    [unicode |-> unicode,
     start_connector_length |-> start,
     end_connector_length |-> end,
     full_advance |-> full,
     required |-> required]

ConstructableGlyph(parts) == [parts |-> parts, italics_correction |-> 0]

GlyphVariants(replacements, constructable) ==
    [replacements |-> replacements, constructable |-> constructable]

\* ------------------------------------------------------------- table contents
\* Ladders of up to MaxReplacements rungs, in any order of advance.
Ladders ==
    UNION {{[i \in 1..k |-> ReplacementGlyph(ReplUnicode(i), adv[i])] :
                adv \in [1..k -> ReplAdvances]} : k \in 0..MaxReplacements}

PartShapes ==
    [start : ConnectorLengths, end : ConnectorLengths,
     full : PartAdvances, required : BOOLEAN]

\* Recipes of up to MaxParts parts.
Recipes ==
    UNION {{[i \in 1..k |-> GlyphPart(PartUnicode(i), sh[i].start, sh[i].end,
                                      sh[i].full, sh[i].required)] :
                sh \in [1..k -> PartShapes]} : k \in 0..MaxParts}

\* Entries made of a replacement ladder alone.
LadderEntries == {Some(GlyphVariants(l, None)) : l \in Ladders}

\* Entries made of an assembly recipe alone.
AssemblyEntries ==
    {Some(GlyphVariants(<<>>, Some(ConstructableGlyph(p)))) : p \in Recipes}

\* Entries with a one-rung ladder and a recipe of fewer than MaxParts parts.
MixedEntries ==
    {Some(GlyphVariants(<<ReplacementGlyph(ReplUnicode(1), 1)>>,
                        Some(ConstructableGlyph(p)))) :
        p \in {q \in Recipes : Len(q) < MaxParts}}

\* What the other direction's table holds when the two tables differ.
OtherEntries ==
    {None,
     Some(GlyphVariants(<<ReplacementGlyph(ReplUnicode(3), 1),
                          ReplacementGlyph(ReplUnicode(1), 2)>>, None)),
     Some(GlyphVariants(<<>>, Some(ConstructableGlyph(
            <<GlyphPart(PartUnicode(1), 0, 2, 2, TRUE),
              GlyphPart(PartUnicode(2), 2, 2, 2, FALSE)>>))))}

VARIABLES
    VERT_VARIANTS,     \* unicode -> GlyphVariants (partial), read-only
    HORZ_VARIANTS,     \* unicode -> GlyphVariants (partial), read-only
    overflow_checks,   \* build profile: TRUE = integer overflow panics
    base,              \* the caller's glyph (`self`)
    min_size,          \* the caller's size
    call,              \* the call made, if any
    ret,               \* what it returned (or its panic)
    metrics_calls,     \* the glyph_metrics calls it made
    locals             \* the locals of its construction path, if taken

vars == <<VERT_VARIANTS, HORZ_VARIANTS, overflow_checks, base, min_size,
          call, ret, metrics_calls, locals>>

\* ------------------------------------------------------------- values
Glyph(unicode, advance) == [unicode |-> unicode, advance |-> advance]

\* The advance the metrics provider records for each glyph identity.
GlyphAdvance(unicode) == 1 + (unicode % 3)

glyph_metrics(unicode) == Glyph(unicode, GlyphAdvance(unicode))

Replacement(glyph) == [tag |-> "Replacement", glyph |-> glyph]

Constructable(direction, instructions) ==
    [tag |-> "Constructable", direction |-> direction, instructions |-> instructions]

Panic(message) == [tag |-> "panic", message |-> message]

Returned(glyph) == [tag |-> "Glyph", glyph |-> glyph]

NoLocals == [tag |-> "none"]

\* What one call produced: its value (or panic), the glyph_metrics calls it
\* made, and the locals of the construction path.
Traced(value, n, l) == [value |-> value, metrics_calls |-> n, locals |-> l]

Outcome(value, n) == Traced(value, n, NoLocals)

\* ------------------------------------------------------------- f64
\* An f64 x is held exactly, as the integer x * 2^60 in three limbs
\* <<h, m, l>> = h * 2^48 + m * 2^24 + l, with m and l in 0..2^24-1 and h
\* signed. Every f64 the calls compute is 0 or has a magnitude in [2^-7, 2^16),
\* so the last bit of its 53-bit significand is worth 2^-59 at least and lies
\* in l; results are rounded to nearest, ties to even, as IEEE 754 does.
Limb == 2^24

\* The significand of an f64, its implicit leading bit included.
SignificandBits == 53

Carry(x) ==
    LET m == x[2] + (x[3] \div Limb) IN
    <<x[1] + (m \div Limb), m % Limb, x[3] % Limb>>

\* `n as f64` for an integer n: exact (n * 2^60 = n * 2^12 * 2^48).
F64(n) == <<n * 2^12, 0, 0>>

Neg(x) == Carry(<<-x[1], -x[2], -x[3]>>)

\* The real numbers a + b and a - b, unrounded.
Plus(a, b) == Carry(<<a[1] + b[1], a[2] + b[2], a[3] + b[3]>>)

Minus(a, b) == Carry(<<a[1] - b[1], a[2] - b[2], a[3] - b[3]>>)

Leq(a, b) == Minus(b, a)[1] >= 0

RECURSIVE Log2(_)
Log2(n) == IF n <= 1 THEN 0 ELSE 1 + Log2(n \div 2)

\* Index of the leading 1 bit of x * 2^60, x > 0.
TopBit(x) ==
    IF x[1] > 0 THEN 48 + Log2(x[1])
    ELSE IF x[2] > 0 THEN 24 + Log2(x[2])
    ELSE Log2(x[3])

\* x >= 0, or x plus a nonzero fraction of 2^-60 when `sticky`, rounded to a
\* 53-bit significand, to nearest and ties to even.
RoundMagnitude(x, sticky) ==
    IF x = <<0, 0, 0>> THEN x
    ELSE LET drop == TopBit(x) - (SignificandBits - 1) IN
         IF drop <= 0 THEN x
         ELSE LET unit == 2^drop
                  half == unit \div 2
                  low  == x[3] % unit
                  odd  == (x[3] \div unit) % 2 = 1
                  up   == low > half \/ (low = half /\ (sticky \/ odd))
              IN  Carry(<<x[1], x[2], x[3] - low + (IF up THEN unit ELSE 0)>>)

Round(x, sticky) ==
    IF x[1] < 0 THEN Neg(RoundMagnitude(Neg(x), sticky))
    ELSE RoundMagnitude(x, sticky)

\* f64 `a - b`.
F64Sub(a, b) == Round(Minus(a, b), FALSE)

\* f64 `n / d` of two integral f64, n >= 0 and 0 < d < 2^7: long division to
\* 60 fraction bits, the remainder kept as the sticky bit.
F64Div(n, d) ==
    LET n1 == n * 2^12
        r1 == n1 % d
        r2 == (r1 * Limb) % d
        r3 == (r2 * Limb) % d
    IN  Round(<<n1 \div d, (r1 * Limb) \div d, (r2 * Limb) \div d>>, r3 # 0)

\* `advance as f64 < size` for a u32 kept as its representative modulo 2^32:
\* a negative representative is a value above 2^31, hence above every size.
U32LessThan(x, size) == x >= 0 /\ x < size

\* ------------------------------------------------------------- table lookup
NoEntries == <<>>

get(table, key) == IF key \in DOMAIN table THEN Some(table[key]) ELSE None

\* ------------------------------------------------------------- advance_with_glyphs
\* Faulty version: the overlap is the previous end connector, the start connector unread.
AdvanceStepNoStart(glyph, st) ==
    LET overlap == st.previous_connector
        capped  == Min(MIN_CONNECTOR_OVERLAP, overlap)
    IN  [advance            |-> st.advance + (glyph.full_advance - capped),
         previous_connector |-> glyph.end_connector_length,
         overflowed         |-> st.overflowed \/ glyph.full_advance < capped]

AdvanceStep(glyph, st) ==
    LET overlap == Min(st.previous_connector, glyph.start_connector_length)
        capped  == Min(MIN_CONNECTOR_OVERLAP, overlap)
    IN  [advance            |-> st.advance + (glyph.full_advance - capped),
         previous_connector |-> glyph.end_connector_length,
         overflowed         |-> st.overflowed \/ glyph.full_advance < capped]

RECURSIVE AdvanceRepeat(_, _, _)
AdvanceRepeat(glyph, count, st) ==
    IF count = 0 THEN st
    ELSE AdvanceRepeat(glyph, count - 1, AdvanceStep(glyph, st))

RECURSIVE AdvanceParts(_, _, _, _)
AdvanceParts(parts, i, repeats, st) ==
    IF i > Len(parts) THEN st
    ELSE AdvanceParts(parts, i + 1, repeats,
            AdvanceRepeat(parts[i], IF ~parts[i].required THEN repeats ELSE 1, st))

\* [advance, overflowed]: the u32 sum, and whether a u32 subtraction underflowed.
advance_with_glyphs(parts, repeats) ==
    AdvanceParts(parts, 1, repeats,
        [advance |-> 0, previous_connector |-> 0, overflowed |-> FALSE])

\* ------------------------------------------------------------- repeat-count search
\* Faulty version: the ceiling test is off by one (`count >= 10`).
RECURSIVE SearchCountOffByOne(_, _, _)
SearchCountOffByOne(parts, size, count) ==
    LET a == advance_with_glyphs(parts, count) IN
    IF overflow_checks /\ a.overflowed
    THEN Panic("attempt to subtract with overflow")
    ELSE IF U32LessThan(a.advance, size)
    THEN IF count + 1 >= MaxRepeats
         THEN Panic("Unable to construct large glyph.")
         ELSE SearchCountOffByOne(parts, size, count + 1)
    ELSE [tag |-> "count", count |-> count, advance |-> a.advance]

RECURSIVE SearchCount(_, _, _)
SearchCount(parts, size, count) ==
    LET a == advance_with_glyphs(parts, count) IN
    IF overflow_checks /\ a.overflowed
    THEN Panic("attempt to subtract with overflow")
    ELSE IF U32LessThan(a.advance, size)
    THEN IF count + 1 > MaxRepeats
         THEN Panic("Unable to construct large glyph.")
         ELSE SearchCount(parts, size, count + 1)
    ELSE [tag |-> "count", count |-> count, advance |-> a.advance]

\* ------------------------------------------------------------- materialization
\* Faulty version: materialization caps the overlap as the search does.
MaterializeStepCapped(glyph, gly, st) ==
    LET overlap == Min(MIN_CONNECTOR_OVERLAP,
                       Min(st.previous_connector, glyph.start_connector_length)) IN
    [instructions       |-> Append(st.instructions,
                                   [glyph |-> gly, overlap |-> F64(overlap)]),
     glyph_advance      |-> st.glyph_advance + (glyph.full_advance - overlap),
     previous_connector |-> glyph.end_connector_length]

MaterializeStep(glyph, gly, st) ==
    LET overlap == Min(st.previous_connector, glyph.start_connector_length) IN
    [instructions       |-> Append(st.instructions,
                                   [glyph |-> gly, overlap |-> F64(overlap)]),
     glyph_advance      |-> st.glyph_advance + (glyph.full_advance - overlap),
     previous_connector |-> glyph.end_connector_length]

RECURSIVE MaterializeRepeat(_, _, _, _)
MaterializeRepeat(glyph, gly, repeat, st) ==
    IF repeat = 0 THEN st
    ELSE MaterializeRepeat(glyph, gly, repeat - 1, MaterializeStep(glyph, gly, st))

RECURSIVE MaterializeParts(_, _, _, _)
MaterializeParts(parts, i, count, st) ==
    IF i > Len(parts) THEN st
    ELSE MaterializeParts(parts, i + 1, count,
            MaterializeRepeat(parts[i], glyph_metrics(parts[i].unicode),
                              IF ~parts[i].required THEN count ELSE 1, st))

Materialize(parts, count) ==
    MaterializeParts(parts, 1, count,
        [instructions |-> <<>>, glyph_advance |-> 0, previous_connector |-> 0])

\* ------------------------------------------------------------- fit to size
\* `instructions.iter_mut().skip(1)`: every instruction but the first.
ReduceOverlaps(instructions, overlap) ==
    [i \in 1..Len(instructions) |->
        IF i = 1 THEN instructions[i]
        ELSE [instructions[i] EXCEPT !.overlap = F64Sub(@, overlap)]]

FitToSize(direction, size, m) ==
    LET size_difference == size - m.glyph_advance
        len == Len(m.instructions)
    IN  IF size_difference < 0 THEN Constructable(direction, m.instructions)
        ELSE IF len = 0
        \* usize `len() - 1`: panics when overflow is checked, else wraps to
        \* usize::MAX and the loop below has nothing to visit.
        THEN IF overflow_checks THEN Panic("attempt to subtract with overflow")
             ELSE Constructable(direction, m.instructions)
        ELSE IF len = 1
        \* f64 division by 0.0 gives inf or NaN, which skip(1) never applies.
        THEN Constructable(direction, m.instructions)
        ELSE Constructable(direction,
                ReduceOverlaps(m.instructions, F64Div(size_difference, len - 1)))

\* ------------------------------------------------------------- Variant::variant
\* Faulty version: the scan takes a rung only when its advance exceeds the size.
RECURSIVE FirstFitStrict(_, _, _)
FirstFitStrict(replacements, i, size) ==
    IF i > Len(replacements) THEN None
    ELSE IF replacements[i].advance > size THEN Some(replacements[i])
    ELSE FirstFitStrict(replacements, i + 1, size)

RECURSIVE FirstFit(_, _, _)
FirstFit(replacements, i, size) ==
    IF i > Len(replacements) THEN None
    ELSE IF replacements[i].advance >= size THEN Some(replacements[i])
    ELSE FirstFit(replacements, i + 1, size)

\* `match direction { Vertical => VERT_VARIANTS.get(..), Horizontal => HORZ_VARIANTS.get(..) }`
Lookup(unicode, direction) ==
    IF direction = "Vertical" THEN get(VERT_VARIANTS, unicode)
    ELSE get(HORZ_VARIANTS, unicode)

\* Faulty version: the passthrough re-reads the glyph from the metrics provider.
PassthroughViaMetrics(self) == Outcome(Replacement(glyph_metrics(self.unicode)), 1)

\* No variants for this glyph: `return VariantGlyph::Replacement(*self)`.
Passthrough(self) == Outcome(Replacement(self), 0)

\* No replacement is large enough and there is no recipe: the last replacement.
LargestReplacement(replacements) ==
    IF replacements = <<>>
    THEN Outcome(Panic("Unable to obtain last replacement glyph.  This shouldn't happen"), 0)
    ELSE Outcome(Replacement(glyph_metrics(replacements[Len(replacements)].unicode)), 1)

Construct(parts, size, direction) ==
    LET found == SearchCount(parts, size, 0) IN
    IF found.tag = "panic" THEN Outcome(found, 0)
    ELSE LET m == Materialize(parts, found.count) IN
         Traced(FitToSize(direction, size, m), Len(parts),
                [tag |-> "construct",
                 count |-> found.count,
                 advance |-> found.advance,
                 glyph_advance |-> m.glyph_advance,
                 instructions |-> m.instructions])

variant(self, size, direction) ==
    LET looked == Lookup(self.unicode, direction) IN
    IF looked = None THEN Passthrough(self)
    ELSE LET variants == looked[1]
             fit == FirstFit(variants.replacements, 1, size)
         IN  IF fit # None
             THEN Outcome(Replacement(glyph_metrics(fit[1].unicode)), 1)
             ELSE IF variants.constructable = None
             THEN LargestReplacement(variants.replacements)
             ELSE Construct(variants.constructable[1].parts, size, direction)

\* ------------------------------------------------------------- Variant::successor
\* Faulty version: the successor is looked up in the horizontal table.
successorHorizontal(self) ==
    LET looked == get(HORZ_VARIANTS, self.unicode) IN
    IF looked = None THEN Outcome(self, 0)
    ELSE IF Len(looked[1].replacements) >= 2
         THEN Outcome(glyph_metrics(looked[1].replacements[2].unicode), 1)
         ELSE Outcome(self, 0)

successor(self) ==
    LET looked == get(VERT_VARIANTS, self.unicode) IN
    IF looked = None THEN Outcome(self, 0)
    ELSE IF Len(looked[1].replacements) >= 2
         THEN Outcome(glyph_metrics(looked[1].replacements[2].unicode), 1)
         ELSE Outcome(self, 0)

\* ------------------------------------------------------------- state machine
Table(entry) == IF entry = None THEN NoEntries ELSE (BaseUnicode :> entry[1])

Font(vert, horz) == [vert |-> Table(vert), horz |-> Table(horz)]

\* Fonts whose two tables differ: a ladder (or nothing) in one direction.
LadderFonts ==
    UNION {{Font(e, other), Font(other, e)} :
            e \in {None} \cup LadderEntries, other \in OtherEntries}

\* Fonts that give the base glyph the same recipe in both directions.
AssemblyFonts == {Font(e, e) : e \in AssemblyEntries \cup MixedEntries}

Unset == [tag |-> "none"]

NoCall == [op |-> "none"]

\* The caller's glyph: as the metrics provider gives it, or with other metrics.
BaseGlyphs == {glyph_metrics(BaseUnicode), Glyph(BaseUnicode, 0)}

Start(font, oc, g, size) ==
    /\ VERT_VARIANTS = font.vert
    /\ HORZ_VARIANTS = font.horz
    /\ overflow_checks = oc
    /\ base = g
    /\ min_size = size
    /\ call = NoCall
    /\ ret = Unset
    /\ metrics_calls = 0
    /\ locals = NoLocals

Init ==
    \/ \E font \in LadderFonts, oc \in BOOLEAN, g \in BaseGlyphs, size \in Sizes :
          Start(font, oc, g, size)
    \/ \E font \in AssemblyFonts, oc \in BOOLEAN, size \in Sizes :
          Start(font, oc, glyph_metrics(BaseUnicode), size)

Inputs == <<VERT_VARIANTS, HORZ_VARIANTS, overflow_checks, base, min_size>>

Call(direction) ==
    /\ call = NoCall
    /\ LET r == variant(base, min_size, direction) IN
        /\ call' = [op |-> "variant", direction |-> direction]
        /\ ret' = r.value
        /\ metrics_calls' = r.metrics_calls
        /\ locals' = r.locals
    /\ UNCHANGED Inputs

vert_variant == Call("Vertical")

horz_variant == Call("Horizontal")

Successor ==
    /\ call.op \in {"none", "successor"}
    /\ LET r == successor(base) IN
        /\ call' = [op |-> "successor"]
        /\ ret' = Returned(r.value)
        /\ metrics_calls' = r.metrics_calls
        /\ locals' = r.locals
    /\ UNCHANGED Inputs

Next == vert_variant \/ horz_variant \/ Successor

Spec == Init /\ [][Next]_vars

\* ============================================================= properties
VariantCalled == call.op = "variant"

SuccessorCalled == call.op = "successor"

\* The table the call's direction selects.
Selected == IF call.direction = "Vertical" THEN VERT_VARIANTS ELSE HORZ_VARIANTS

Unselected == IF call.direction = "Vertical" THEN HORZ_VARIANTS ELSE VERT_VARIANTS

HasEntry == base.unicode \in DOMAIN Selected

Entry == Selected[base.unicode]

NonDecreasing(replacements) ==
    \A i \in 1..Len(replacements) - 1 :
        replacements[i].advance <= replacements[i + 1].advance

Fitting(replacements) ==
    {i \in 1..Len(replacements) : replacements[i].advance >= min_size}

Least(S) == CHOOSE x \in S : \A y \in S : x <= y

\* ------------------------------------------------------------- C1
\* C1: with a non-empty ladder in non-decreasing advance order and no recipe,
\* variant returns the metrics of the first rung whose advance >= min_size,
\* and of the last rung when no rung is that large.
C1_ReplacementLadder ==
    (/\ VariantCalled
     /\ HasEntry
     /\ Entry.replacements # <<>>
     /\ Entry.constructable = None
     /\ NonDecreasing(Entry.replacements))
    => LET R == Entry.replacements
           r == IF Fitting(R) = {} THEN R[Len(R)] ELSE R[Least(Fitting(R))]
       IN  ret = Replacement(glyph_metrics(r.unicode))

\* The ladder [(A,1),(B,2),(C,3)] asked for size 2 gave B.
C1_Witness ==
    /\ VariantCalled
    /\ HasEntry
    /\ Entry.constructable = None
    /\ Len(Entry.replacements) = 3
    /\ \A i \in 1..3 : Entry.replacements[i].advance = i
    /\ min_size = 2
    /\ ret = Replacement(glyph_metrics(ReplUnicode(2)))

\* ------------------------------------------------------------- C5
\* C5: variant never ends in a panic: for every table content and every
\* min_size >= 0 it returns a value or an explicit failure to its caller.
C5_NoAbort == VariantCalled => ret.tag # "panic"

\* ------------------------------------------------------------- C6
\* C6: successor reads the vertical table only: it returns base unchanged when
\* that table has no entry for base or the entry has fewer than 2 replacements,
\* and the metrics of the replacement at index 1 otherwise, on every call.
C6_Successor ==
    SuccessorCalled =>
        ret = Returned(
            IF base.unicode \notin DOMAIN VERT_VARIANTS THEN base
            ELSE IF Len(VERT_VARIANTS[base.unicode].replacements) < 2 THEN base
            ELSE glyph_metrics(VERT_VARIANTS[base.unicode].replacements[2].unicode))

\* A three-rung vertical ladder gave its second rung although the horizontal
\* table holds another ladder for the same glyph.
C6_Witness ==
    /\ SuccessorCalled
    /\ base.unicode \in DOMAIN VERT_VARIANTS
    /\ base.unicode \in DOMAIN HORZ_VARIANTS
    /\ Len(VERT_VARIANTS[base.unicode].replacements) = 3
    /\ Len(HORZ_VARIANTS[base.unicode].replacements) = 2
    /\ HORZ_VARIANTS[base.unicode].replacements[2].unicode # ReplUnicode(2)
    /\ ret = Returned(glyph_metrics(ReplUnicode(2)))

\* ------------------------------------------------------------- C7
\* C7: when the table the direction selects has no entry for base, variant
\* returns Replacement(base), base untouched, without a glyph_metrics call,
\* whatever the other direction's table holds.
C7_Passthrough ==
    (VariantCalled /\ ~HasEntry) =>
        /\ ret = Replacement(base)
        /\ metrics_calls = 0

\* Passthrough of a glyph the metrics provider would describe otherwise, while
\* the other table holds a recipe for it.
C7_Witness ==
    /\ VariantCalled
    /\ ~HasEntry
    /\ base.unicode \in DOMAIN Unselected
    /\ Unselected[base.unicode].constructable # None
    /\ base # glyph_metrics(base.unicode)
    /\ ret = Replacement(base)

\* ------------------------------------------------------------- assemblies
\* The call took the construction path: an entry, no rung large enough, a recipe.
OnConstructionPath ==
    /\ VariantCalled
    /\ HasEntry
    /\ Fitting(Entry.replacements) = {}
    /\ Entry.constructable # None

Parts == Entry.constructable[1].parts

Built == VariantCalled /\ ret.tag = "Constructable"

\* The part instances of a recipe with r repeats: required parts once,
\* extenders r times, in part order.
RECURSIVE InstancesFrom(_, _, _)
InstancesFrom(parts, i, r) ==
    IF i > Len(parts) THEN <<>>
    ELSE [k \in 1..(IF parts[i].required THEN 1 ELSE r) |-> parts[i]]
         \o InstancesFrom(parts, i + 1, r)

Instances(parts, r) == InstancesFrom(parts, 1, r)

RECURSIVE Sum(_)
Sum(seq) == IF seq = <<>> THEN 0 ELSE seq[1] + Sum(Tail(seq))

\* The connector overlap available at the join before instance k.
Join(inst, k) ==
    IF k = 1 THEN 0
    ELSE Min(inst[k - 1].end_connector_length, inst[k].start_connector_length)

Capped(x) == Min(MIN_CONNECTOR_OVERLAP, x)

\* Sum of full_advance less the capped join overlap, over the instances.
AssembledAdvance(parts, r) ==
    LET inst == Instances(parts, r) IN
    Sum([k \in 1..Len(inst) |-> inst[k].full_advance - Capped(Join(inst, k))])

\* The same sum with the overlap the claim words: the lesser of the previous
\* instance's end connector and the cap, the part's own start connector unread.
WordedAdvance(parts, r) ==
    LET inst == Instances(parts, r) IN
    Sum([k \in 1..Len(inst) |->
            inst[k].full_advance
            - (IF k = 1 THEN 0 ELSE Capped(inst[k - 1].end_connector_length))])

\* Some u32 subtraction of the search underflows at r repeats.
Underflows(parts, r) ==
    LET inst == Instances(parts, r) IN
    \E k \in 1..Len(inst) : inst[k].full_advance < Capped(Join(inst, k))

\* No part of the recipe is shorter than the overlap the search subtracts from it.
NoUnderflow == \A r \in 0..MaxRepeats : ~Underflows(Parts, r)

\* The u32 sum, read as f64, is below min_size: a negative sum has wrapped to
\* a value above every size.
BelowSize(parts, r) ==
    LET a == AssembledAdvance(parts, r) IN a >= 0 /\ a < min_size

\* How often part i of the recipe occurs among the returned instructions.
Occurrences(i) ==
    Cardinality({k \in 1..Len(ret.instructions) :
                    ret.instructions[k].glyph.unicode = Parts[i].unicode})

\* The part instances behind the returned instructions.
Drawn == Instances(Parts, locals.count)

RECURSIVE RealSum(_)
RealSum(seq) == IF seq = <<>> THEN F64(0) ELSE Plus(seq[1], RealSum(Tail(seq)))

\* Sum over the returned instructions of (advance[k] - overlap), as a real number.
NetAdvance(advance) ==
    RealSum([k \in 1..Len(ret.instructions) |->
                Minus(F64(advance[k]), ret.instructions[k].overlap)])

PartAdvance == [k \in 1..Len(Drawn) |-> Drawn[k].full_advance]

MetricsAdvance ==
    [k \in 1..Len(ret.instructions) |-> ret.instructions[k].glyph.advance]

Slack == min_size - locals.glyph_advance

\* ------------------------------------------------------------- C2
\* C2 as worded: every extender occurs r times, r the least count in 0..10
\* whose assembled advance, with overlap min(previous end connector, cap),
\* is >= min_size (read here on recipes where no subtraction underflows).
C2_MinimalRepeatsAsWorded ==
    (OnConstructionPath /\ Built /\ NoUnderflow) =>
        \A i \in 1..Len(Parts) :
            ~Parts[i].required =>
                LET r == Occurrences(i) IN
                /\ r \in 0..MaxRepeats
                /\ WordedAdvance(Parts, r) >= min_size
                /\ \A q \in 0..(r - 1) : WordedAdvance(Parts, q) < min_size

\* C2 amended: every extender occurs r times, r the least count in 0..10
\* whose assembled advance is not below min_size, the overlap of an instance
\* being min(previous end connector, own start connector, cap) and the sum a u32.
C2_MinimalRepeats ==
    (OnConstructionPath /\ Built) =>
        \A i \in 1..Len(Parts) :
            ~Parts[i].required =>
                LET r == Occurrences(i) IN
                /\ r \in 0..MaxRepeats
                /\ r = locals.count
                /\ ~BelowSize(Parts, r)
                /\ \A q \in 0..(r - 1) : BelowSize(Parts, q)

\* top / repeatable middle / bottom-less recipe asked for one more than its
\* 0-repeat advance: exactly one repeat.
C2_Witness ==
    /\ OnConstructionPath /\ Built /\ NoUnderflow
    /\ Len(Parts) = 2
    /\ Parts[1].required /\ ~Parts[2].required
    /\ Join(Instances(Parts, 1), 2) > 0
    /\ min_size = AssembledAdvance(Parts, 0) + 1
    /\ Occurrences(2) = 1

\* ------------------------------------------------------------- C3
\* The metrics provider gives every drawn glyph the advance of its part.
MetricsAgree ==
    /\ Len(Drawn) = Len(ret.instructions)
    /\ MetricsAdvance = PartAdvance

\* C3: with more than one instruction and slack >= 0, the sum of
\* (instruction.glyph.advance - instruction.overlap) equals min_size exactly
\* (read here on results whose glyphs have the advance of their parts).
C3_ExactFit ==
    (Built /\ NoUnderflow /\ MetricsAgree /\ Len(ret.instructions) > 1 /\ Slack >= 0) =>
        NetAdvance(MetricsAdvance) = F64(min_size)

\* ------------------------------------------------------------- C4
\* The search gets to compare the advance at r repeats (no overflow panic there).
SearchReaches(r) == ~(overflow_checks /\ Underflows(Parts, r))

C8_SameOverlapAsSearch ==
    Built =>
        /\ \A k \in 1..Len(Drawn) :
              locals.instructions[k].overlap = F64(Capped(Join(Drawn, k)))
        /\ locals.glyph_advance = locals.advance

\* C8 amended: materialization gives each instruction the overlap
\* min(previous end connector, own start connector), not capped, so the
\* advance it accumulates is the search's assembled advance less, at every
\* join, the excess of that overlap over the cap.
C8_UncappedOverlap ==
    Built =>
        /\ Len(locals.instructions) = Len(Drawn)
        /\ \A k \in 1..Len(Drawn) :
              locals.instructions[k].overlap = F64(Join(Drawn, k))
        /\ locals.advance - locals.glyph_advance =
              Sum([k \in 1..Len(Drawn) |-> Join(Drawn, k) - Capped(Join(Drawn, k))])

\* A join whose connectors allow more overlap than the cap.
C8_Witness ==
    /\ Built /\ NoUnderflow
    /\ \E k \in 1..Len(Drawn) : Join(Drawn, k) > MIN_CONNECTOR_OVERLAP
    /\ locals.glyph_advance < locals.advance

\* ------------------------------------------------------------- C9
\* C9: every Constructable result meets the request: the sum over its
\* instructions of (part full_advance - overlap) is >= min_size (read here on
\* recipes where no subtraction underflows).
C9_MeetsRequest ==
    (Built /\ NoUnderflow) =>
        /\ Len(Drawn) = Len(ret.instructions)
        /\ Leq(F64(min_size), NetAdvance(PartAdvance))

\* ------------------------------------------------------------- C10
\* C10: in every Constructable result the first overlap is 0 and every later
\* one lies between 0 and min(previous end connector, own start connector)
\* (read here on recipes where no subtraction underflows).
C10_OverlapsInRange ==
    (Built /\ NoUnderflow) =>
        /\ Len(Drawn) = Len(ret.instructions)
        /\ \A k \in 1..Len(ret.instructions) :
              LET o == ret.instructions[k].overlap IN
              IF k = 1 THEN o = F64(0)
              ELSE Leq(F64(0), o) /\ Leq(o, F64(Join(Drawn, k)))

====
